---- MODULE Spec2Model ----
(***************************************************************************)
(* A model of fuse_core.core.fields: the Field coercion pipeline           *)
(* (Field.__init__, Field.set, Field.validate) and the type-specific       *)
(* handle steps of StringField, IntegerField, FloatField, DateField and    *)
(* ArrayField.                                                             *)
(*                                                                         *)
(* Python values are tagged records: a text is [str |-> <<chars>>], an     *)
(* integer [int |-> n], a float [float |-> <<num, den>>] (the exact        *)
(* rational, binary rounding abstracted away), a datetime                  *)
(* [datetime |-> n], a date [date |-> n], a list [list |-> <<values>>].    *)
(* An exception is the name of its class.                                  *)
(***************************************************************************)
EXTENDS Integers, Sequences, FiniteSets, TLC

VARIABLES
    args,       \* the keyword arguments of the constructor call
    field,      \* the field object, once constructed
    phase,      \* "new", then "ready" or (the constructor raised) "failed"
    op,         \* the method the consumer called last: "set", "validate", "none"
    raw,        \* the argument of that call
    outcome,    \* what that call returned or raised
    calls       \* the calls of set in progress on the shared field, per caller

vars == <<args, field, phase, op, raw, outcome, calls>>

---------------------------------------------------------------------------
(* Bounds of the model *)

\* longest handler list a field is constructed with
MaxHandlers == 2
\* largest integer array size limit a field is constructed with
MaxSize == 2
\* longest text fed to a FloatField in SpecFloat
MaxFloatLen == 4
\* longest text fed to an ArrayField in SpecArray
MaxArrayLen == 4

---------------------------------------------------------------------------
(* Python values *)

None == [none |-> TRUE]

PyStr(s) == [str |-> s]

PyInt(n) == [int |-> n]

PyList(xs) == [list |-> xs]

IsStr(v) == DOMAIN v = {"str"}

IsInt(v) == DOMAIN v = {"int"}

IsDatetime(v) == DOMAIN v = {"datetime"}

IsDate(v) == DOMAIN v = {"date"}

\* the result of a step that may raise: a value, or the class of the exception
Ok(v) == [ok |-> TRUE, value |-> v, exc |-> "-"]

Err(e) == [ok |-> FALSE, value |-> None, exc |-> e]

---------------------------------------------------------------------------
(* Text primitives of the Python runtime, on sequences of characters *)

Digits == {"0", "1", "2", "3", "4", "5", "6", "7", "8", "9"}

DigitValue(c) ==
    CASE c = "0" -> 0 [] c = "1" -> 1 [] c = "2" -> 2 [] c = "3" -> 3
      [] c = "4" -> 4 [] c = "5" -> 5 [] c = "6" -> 6 [] c = "7" -> 7
      [] c = "8" -> 8 [] c = "9" -> 9

DigitChar(n) ==
    CASE n = 0 -> "0" [] n = 1 -> "1" [] n = 2 -> "2" [] n = 3 -> "3"
      [] n = 4 -> "4" [] n = 5 -> "5" [] n = 6 -> "6" [] n = 7 -> "7"
      [] n = 8 -> "8" [] n = 9 -> "9"

\* c in s
Contains(s, c) == \E i \in 1..Len(s) : s[i] = c

\* s is a non-empty run of decimal digits
IsDigits(s) == Len(s) > 0 /\ \A i \in 1..Len(s) : s[i] \in Digits

RECURSIVE ToNat(_)
\* the value of a (possibly empty) run of decimal digits
ToNat(s) ==
    IF s = <<>> THEN 0
    ELSE 10 * ToNat(SubSeq(s, 1, Len(s) - 1)) + DigitValue(s[Len(s)])

RECURSIVE NatToText(_)
\* str(n) for n >= 0
NatToText(n) ==
    IF n < 10 THEN <<DigitChar(n)>>
    ELSE Append(NatToText(n \div 10), DigitChar(n % 10))

RECURSIVE Pow10(_)
Pow10(k) == IF k = 0 THEN 1 ELSE 10 * Pow10(k - 1)

RECURSIVE Gcd(_, _)
Gcd(a, b) == IF b = 0 THEN a ELSE Gcd(b, a % b)

\* the float (an exact rational in lowest terms) n/d, d > 0
PyFloat(n, d) == [float |-> <<n \div Gcd(n, d), d \div Gcd(n, d)>>]

\* s.strip(): leading and trailing whitespace removed
Strip(s) ==
    LET keep == {i \in 1..Len(s) : s[i] # " "}
    IN IF keep = {} THEN <<>>
       ELSE LET lo == CHOOSE i \in keep : \A j \in keep : i <= j
                hi == CHOOSE i \in keep : \A j \in keep : j <= i
            IN SubSeq(s, lo, hi)

\* s.replace(c, d) for one-character c and d
Replace(s, c, d) == [i \in 1..Len(s) |-> IF s[i] = c THEN d ELSE s[i]]

RECURSIVE SplitOn(_, _)
\* s.split(c) for a one-character separator c: empty pieces are kept
SplitOn(s, c) ==
    IF ~Contains(s, c) THEN <<s>>
    ELSE LET p == CHOOSE i \in 1..Len(s) :
                    s[i] = c /\ \A j \in 1..(i - 1) : s[j] # c
         IN <<SubSeq(s, 1, p - 1)>> \o SplitOn(SubSeq(s, p + 1, Len(s)), c)

\* s.split(): split on runs of whitespace, empty pieces dropped
SplitWhitespace(s) == SelectSeq(SplitOn(s, " "), LAMBDA t : t # <<>>)

\* the literals int(text) accepts over the model's alphabet: optional
\* surrounding whitespace around a run of digits
ParseInt(s) ==
    IF IsDigits(Strip(s)) THEN Ok(PyInt(ToNat(Strip(s)))) ELSE Err("ValueError")

\* a decimal literal without whitespace: D+ | D+ "." D* | "." D+
DecimalLiteral(t) ==
    IF ~Contains(t, ".") THEN
        IF IsDigits(t) THEN Ok(PyFloat(ToNat(t), 1)) ELSE Err("ValueError")
    ELSE
        LET p == CHOOSE i \in 1..Len(t) : t[i] = "." /\ \A j \in 1..(i - 1) : t[j] # "."
            whole == SubSeq(t, 1, p - 1)
            frac == SubSeq(t, p + 1, Len(t))
            digits(x) == \A i \in 1..Len(x) : x[i] \in Digits
        IN IF digits(whole) /\ digits(frac) /\ (whole # <<>> \/ frac # <<>>)
           THEN Ok(PyFloat(ToNat(whole) * Pow10(Len(frac)) + ToNat(frac), Pow10(Len(frac))))
           ELSE Err("ValueError")

\* float(text): surrounding whitespace is ignored
ParseFloat(s) == DecimalLiteral(Strip(s))

\* Fraction(token) for a token without whitespace: "num/den" with both
\* runs of digits, or a decimal literal; a zero denominator raises
\* ZeroDivisionError, any other malformed token ValueError
ParseFraction(t) ==
    IF Contains(t, "/") THEN
        LET parts == SplitOn(t, "/")
        IN IF Len(parts) = 2 /\ IsDigits(parts[1]) /\ IsDigits(parts[2])
           THEN IF ToNat(parts[2]) = 0 THEN Err("ZeroDivisionError")
                ELSE Ok(PyFloat(ToNat(parts[1]), ToNat(parts[2])))
           ELSE Err("ValueError")
    ELSE DecimalLiteral(t)

\* a + b on exact rationals
FloatAdd(a, b) ==
    PyFloat(a.float[1] * b.float[2] + b.float[1] * a.float[2], a.float[2] * b.float[2])

RECURSIVE SumFractions(_, _)
\* sum(Fraction(s) for s in tokens): tokens are parsed left to right and
\* the first one that raises ends the sum
SumFractions(tokens, acc) ==
    IF tokens = <<>> THEN Ok(acc)
    ELSE LET f == ParseFraction(Head(tokens))
         IN IF f.ok THEN SumFractions(Tail(tokens), FloatAdd(acc, f.value)) ELSE f

\* every sequence over S of length at most n
SeqsUpTo(S, n) == UNION {[1..k -> S] : k \in 0..n}

---------------------------------------------------------------------------
(* Markers and collaborators of fuse_core that fields.py imports *)

\* an instance of the DEFAULT_FROM_INPUT marker class
DEFAULT_FROM_INPUT == [marker |-> "DEFAULT_FROM_INPUT"]

\* an instance of the ARRAY_NO_SIZE_LIMITS marker class
ARRAY_NO_SIZE_LIMITS == [marker |-> "ARRAY_NO_SIZE_LIMITS"]

\* an integer size limit
SizeLimit(n) == [limit |-> n]

DEFAULT_FLOAT_SEPARATORS == <<",">>

DEFAULT_ARRAY_SEPARATORS == <<",">>

\* no separator found (Python's None)
NoSeparator == "None"

\* get_separator(separators, value): the first configured separator that
\* occurs in the text, or None
get_separator(separators, value) ==
    LET found == {i \in 1..Len(separators) : Contains(value.str, separators[i])}
    IN IF found = {} THEN NoSeparator
       ELSE separators[CHOOSE i \in found : \A j \in found : i <= j]

\* the classes of fuse_core.core.exceptions (ArraySizeLimitError,
\* ValueValidationError) derive from Exception directly
FuseExceptionBases(e) == {e}

\* the base classes of an exception class that matter to an except clause:
\* dateutil's ParserError derives from ValueError, the builtin classes the
\* model raises derive from none of the others
Bases(e) ==
    IF e = "ParserError" THEN {"ParserError", "ValueError"}
    ELSE IF e \in {"ArraySizeLimitError", "ValueValidationError"} THEN FuseExceptionBases(e)
    ELSE {e}

\* isinstance(e, classes)
IsInstance(e, classes) == Bases(e) \cap classes # {}

\* no custom method configured (method=None)
NoMethod == "None"

\* The callables a field is configured with, by behaviour: a handler's
\* handle(value) or the custom method(value) returns a new value or raises.
Callables == {"AppendZero", "RaiseValueError", "RaiseTypeError"}

\* handler.handle(value) / method(value)
Call(callable, value) ==
    CASE callable = "AppendZero" ->
            IF IsStr(value) THEN Ok(PyStr(Append(value.str, "0"))) ELSE Err("TypeError")
      [] callable = "RaiseValueError" -> Err("ValueError")
      [] callable = "RaiseTypeError" -> Err("TypeError")

\* The validators a field is configured with, by behaviour.
Validators == {"Accept", "Reject", "Digits"}

\* validator.validate(value)
ValidatorAccepts(validator, value) ==
    CASE validator = "Accept" -> TRUE
      [] validator = "Reject" -> FALSE
      [] validator = "Digits" -> IsStr(value) /\ IsDigits(value.str)

---------------------------------------------------------------------------
(* Field *)

Variants ==
    {"Field", "StringField", "IntegerField", "FloatField", "DateField", "ArrayField"}

\* Field.exceptions widened by TypeError
exceptionsWithTypeError ==
    {"KeyError", "ValueError", "IndexError", "OverflowError", "TypeError"}

\* Field.exceptions
exceptions == {"KeyError", "ValueError", "IndexError", "OverflowError"}

\* the keyword arguments of a constructor call, with the defaults of the
\* signatures for those not given (an empty sequence stands for None)
Kwargs(variant) ==
    [variant |-> variant, null |-> FALSE, default |-> None, skip_values |-> <<>>,
     method |-> NoMethod, handlers |-> <<>>, validators |-> <<>>,
     raise_exception |-> TRUE, separators |-> <<>>, as_string |-> FALSE,
     date_attribute |-> "None", child_field |-> None, size |-> ARRAY_NO_SIZE_LIMITS]

\* Field.__init__ without the check that method and handlers exclude each other
Field_initUnchecked(a) == Ok(a)

\* Field.__init__ and the constructors of the variants, which set their own
\* attributes and then run Field.__init__: the field, or the exception raised
Field_init(a) ==
    IF a.method # NoMethod /\ a.handlers # <<>>
    THEN Err("AttributeError")
    ELSE Ok([a EXCEPT !.separators =
                IF a.separators # <<>> THEN a.separators
                ELSE IF a.variant = "FloatField" THEN DEFAULT_FLOAT_SEPARATORS
                ELSE IF a.variant = "ArrayField" THEN DEFAULT_ARRAY_SEPARATORS
                ELSE <<>>])

\* Field.validate: the value, or ValueValidationError at the first validator
\* that does not accept it
Field_validate(f, value) ==
    IF \E i \in 1..Len(f.validators) : ~ValidatorAccepts(f.validators[i], value)
    THEN Err("ValueValidationError")
    ELSE Ok(value)

\* set without its skip check
SkipCheckOmitted(f, value) == FALSE

\* value in self._skip_values
InSkipValues(f, value) == \E i \in 1..Len(f.skip_values) : f.skip_values[i] = value

RECURSIVE RunHandlers(_, _)
\* for handler in self._handlers: value = handler.handle(value)
\* n counts the handlers called; value is the variable as the loop left it
RunHandlers(handlers, value) ==
    IF handlers = <<>> THEN [ok |-> TRUE, value |-> value, exc |-> "-", n |-> 0]
    ELSE LET r == Call(Head(handlers), value)
         IN IF r.ok
            THEN LET rest == RunHandlers(Tail(handlers), r.value)
                 IN [rest EXCEPT !.n = @ + 1]
            ELSE [ok |-> FALSE, value |-> value, exc |-> r.exc, n |-> 1]

\* what a call of set did: it returned a value or raised, after entering
\* the steps listed in stages
Return(v, stages) == [kind |-> "return", value |-> v, exc |-> "-", stages |-> stages]

Raise(e, stages) == [kind |-> "raise", value |-> None, exc |-> e, stages |-> stages]

NoOutcome == [kind |-> "none", value |-> None, exc |-> "-", stages |-> <<>>]

\* except self.exceptions as e: return value under the DEFAULT_FROM_INPUT
\* default, raise e otherwise; any other exception leaves set
Except(f, e, value, stages) ==
    IF IsInstance(e, exceptions) /\ f.default = DEFAULT_FROM_INPUT
    THEN Return(value, stages)
    ELSE Raise(e, stages)

RECURSIVE Field_set(_, _)
RECURSIVE handle(_, _)

\* Field.handle
Field_handle(f, value) == Ok(value)

\* str(value)
StringField_handle(f, value) ==
    CASE IsStr(value) -> Ok(value)
      [] IsInt(value) -> Ok(PyStr(NatToText(value.int)))

\* int(value)
IntegerField_handle(f, value) ==
    CASE IsStr(value) -> ParseInt(value.str)
      [] IsInt(value) -> Ok(value)

FloatField_handle(f, value) ==
    LET separator == get_separator(f.separators, value)
        new_value == IF separator # NoSeparator
                     THEN Replace(value.str, separator, ".")
                     ELSE value.str
    IN IF Contains(new_value, "/")
       THEN SumFractions(SplitWhitespace(new_value), PyFloat(0, 1))
       ELSE ParseFloat(new_value)

\* dateutil.parser.parse(text, fuzzy=True), abstracted: a text without a
\* digit holds no date (ParserError); otherwise the datetime found is
\* determined by the digits of the text
ParseDate(s) ==
    IF \E i \in 1..Len(s) : s[i] \in Digits
    THEN Ok([datetime |-> ToNat(SelectSeq(s, LAMBDA c : c \in Digits))])
    ELSE Err("ParserError")

\* the zero-argument methods of datetime that the model configures by name
DatetimeMethods == {"date"}

\* getattr(new_value, name)()
CallAttribute(v, name) ==
    IF IsDatetime(v) /\ name \in DatetimeMethods
    THEN Ok([date |-> v.datetime])
    ELSE Err("AttributeError")

\* hasattr(new_value, name): a date has no attribute `date`
HasAttribute(v, name) == IsDatetime(v) /\ name \in DatetimeMethods

\* new_value.strftime(self.out_date_format)
Strftime(v) == Ok(PyStr(NatToText(IF IsDatetime(v) THEN v.datetime ELSE v.date)))

DateField_handle(f, value) ==
    LET parsed == CASE IsStr(value) -> ParseDate(value.str)
                    [] IsDatetime(value) -> Ok(value)
                    [] OTHER -> Err("UnboundLocalError")
        reduced == IF f.date_attribute # "None"
                   THEN CallAttribute(parsed.value, f.date_attribute)
                   ELSE parsed
    IN IF ~parsed.ok THEN parsed
       ELSE IF ~reduced.ok THEN reduced
       ELSE IF f.as_string THEN Strftime(reduced.value)
       ELSE IF f.date_attribute # "None" /\ ~HasAttribute(reduced.value, f.date_attribute)
            THEN Err("AttributeError")
       ELSE reduced

\* ArrayField._split_string: value.split(separator), and value.split() on
\* whitespace when no separator is found
ArrayField_split_string(f, value) ==
    LET separator == get_separator(f.separators, value)
    IN IF separator = NoSeparator
       THEN SplitWhitespace(value.str)
       ELSE SplitOn(value.str, separator)

\* ArrayField._check_array_size
ArrayField_check_array_size(f, parts) ==
    IF f.size = ARRAY_NO_SIZE_LIMITS THEN TRUE ELSE Len(parts) >= f.size.limit

\* _convert_values leaving out the elements whose set raises
ConvertValuesDroppingFailed(f, parts) ==
    LET results == [i \in 1..Len(parts) |-> Field_set(f.child_field, PyStr(parts[i]))]
        kept == SelectSeq(results, LAMBDA r : r.kind = "return")
    IN Ok(PyList([i \in 1..Len(kept) |-> kept[i].value]))

\* ArrayField._convert_values: [self.child_field.set(v) for v in value];
\* the first element whose set raises ends the comprehension
ArrayField_convert_values(f, parts) ==
    LET results == [i \in 1..Len(parts) |-> Field_set(f.child_field, PyStr(parts[i]))]
        raised == {i \in 1..Len(parts) : results[i].kind = "raise"}
    IN IF raised = {}
       THEN Ok(PyList([i \in 1..Len(parts) |-> results[i].value]))
       ELSE Err(results[CHOOSE i \in raised : \A j \in raised : i <= j].exc)

ArrayField_handle(f, value) ==
    LET new_value == ArrayField_split_string(f, value)
    IN IF ~ArrayField_check_array_size(f, new_value)
       THEN Err("ArraySizeLimitError")
       ELSE ArrayField_convert_values(f, new_value)

\* self.handle(value), dispatched on the class of the field
handle(f, value) ==
    CASE f.variant = "Field" -> Field_handle(f, value)
      [] f.variant = "StringField" -> StringField_handle(f, value)
      [] f.variant = "IntegerField" -> IntegerField_handle(f, value)
      [] f.variant = "FloatField" -> FloatField_handle(f, value)
      [] f.variant = "DateField" -> DateField_handle(f, value)
      [] f.variant = "ArrayField" -> ArrayField_handle(f, value)

\* the inner try of set raising again whatever raise_exception says
InnerHandleAlwaysRaising(f, value) == handle(f, value)

\* the inner try of set: value = self.handle(value), an exception raised
\* again if raise_exception and dropped, value kept, otherwise
InnerHandle(f, value) ==
    LET h == handle(f, value)
    IN IF h.ok THEN h
       ELSE IF f.raise_exception THEN h
       ELSE Ok(value)

\* the steps set enters after n handlers
StagesTo(n, last) == [i \in 1..n |-> "handler"] \o last

\* Field.set
Field_set(f, value) ==
    IF InSkipValues(f, value) THEN Except(f, "ValueError", value, <<>>)
    ELSE
    LET hs == RunHandlers(f.handlers, value)
        m == IF f.method # NoMethod THEN Call(f.method, hs.value) ELSE Ok(hs.value)
        called == IF f.method # NoMethod THEN <<"method">> ELSE <<>>
        h == InnerHandle(f, m.value)
    IN IF ~hs.ok THEN Except(f, hs.exc, hs.value, StagesTo(hs.n, <<>>))
       ELSE IF ~m.ok THEN Except(f, m.exc, hs.value, StagesTo(hs.n, called))
       ELSE IF ~h.ok THEN Except(f, h.exc, m.value, StagesTo(hs.n, called \o <<"handle">>))
       ELSE Return(h.value, StagesTo(hs.n, called \o <<"handle">>))

---------------------------------------------------------------------------
(* The consumer: it constructs one field and then feeds it raw values *)

Text(s) == PyStr(s)

\* the raw values fed to the fields of Spec
RawValues ==
    {Text(<<"1">>), Text(<<"x">>), Text(<<"1", ",", "1">>), Text(<<"1", ",", "x">>),
     Text(<<"1", "/", "0">>)}

Defaults == {None, DEFAULT_FROM_INPUT}

SkipLists == {<<>>, <<Text(<<"1">>)>>}

ValidatorLists == {<<>>, <<"Digits">>, <<"Accept", "Reject">>}

Sizes == {ARRAY_NO_SIZE_LIMITS} \cup {SizeLimit(n) : n \in 1..MaxSize}

\* child fields, constructed before the array field that owns them
IntegerChild == Field_init(Kwargs("IntegerField")).value

FallbackChild ==
    Field_init([Kwargs("IntegerField") EXCEPT !.default = DEFAULT_FROM_INPUT]).value

QuietChild ==
    Field_init([Kwargs("IntegerField") EXCEPT !.raise_exception = FALSE]).value

HandlerChild ==
    Field_init([Kwargs("StringField") EXCEPT !.handlers = <<"AppendZero">>]).value

NestedChild ==
    Field_init([Kwargs("ArrayField") EXCEPT !.separators = <<" ">>,
                                            !.child_field = IntegerChild]).value

ChildFields == {IntegerChild, FallbackChild, QuietChild, HandlerChild, NestedChild}

\* the variant and its own keyword arguments
VariantKwargs ==
    {Kwargs(v) : v \in {"Field", "StringField", "IntegerField", "FloatField"}}
    \cup {[Kwargs("DateField") EXCEPT !.date_attribute = a, !.as_string = s] :
            a \in {"None", "date", "bogus"}, s \in BOOLEAN}
    \cup {[Kwargs("ArrayField") EXCEPT !.child_field = IntegerChild, !.size = z] :
            z \in Sizes}

\* the constructor calls of Spec
PipelineArgs ==
    {[k EXCEPT !.default = d, !.skip_values = sk, !.method = m, !.handlers = hs,
               !.validators = vs, !.raise_exception = r] :
        k \in VariantKwargs, d \in Defaults, sk \in SkipLists,
        m \in {NoMethod} \cup Callables, hs \in SeqsUpTo(Callables, MaxHandlers),
        vs \in ValidatorLists, r \in BOOLEAN}

NoField == None

\* the callers that share the field in SpecShared
Callers == {"c1", "c2"}

\* a caller that is not inside set
Idle == [pc |-> "idle", raw |-> None, value |-> None, idx |-> 0, stages |-> <<>>,
         result |-> NoOutcome]

Start(argset) ==
    /\ args \in argset
    /\ field = NoField
    /\ phase = "new"
    /\ op = "none"
    /\ raw = None
    /\ outcome = NoOutcome
    /\ calls = [c \in Callers |-> Idle]

Init == Start(PipelineArgs)

\* the consumer constructs the field: Field(**args)
Construct ==
    /\ phase = "new"
    /\ LET made == Field_init(args)
       IN IF made.ok
          THEN field' = made.value /\ phase' = "ready"
          ELSE field' = NoField /\ phase' = "failed"
    /\ UNCHANGED <<args, op, raw, outcome, calls>>

\* the consumer calls field.set(v), as one step (SpecShared runs set
\* statement by statement)
Set(v) ==
    /\ phase = "ready"
    /\ op = "none"
    /\ op' = "set"
    /\ raw' = v
    /\ outcome' = Field_set(field, v)
    /\ field' = field
    /\ UNCHANGED <<args, phase, calls>>

\* the consumer calls field.validate(v)
Validate(v) ==
    /\ phase = "ready"
    /\ op = "none"
    /\ op' = "validate"
    /\ raw' = v
    /\ outcome' = LET r == Field_validate(field, v)
                  IN IF r.ok THEN Return(r.value, <<>>) ELSE Raise(r.exc, <<>>)
    /\ UNCHANGED <<args, field, phase, calls>>

\* the consumer collects the result of the call and is ready for the next
Collect ==
    /\ phase = "ready"
    /\ op # "none"
    /\ op' = "none"
    /\ raw' = None
    /\ outcome' = NoOutcome
    /\ UNCHANGED <<args, field, phase, calls>>

SetCall == \E v \in RawValues : Set(v)

ValidateCall == \E v \in RawValues : Validate(v)

Next == Construct \/ SetCall \/ ValidateCall \/ Collect

Spec == Init /\ [][Next]_vars

---------------------------------------------------------------------------
(* FloatField fed every short text *)

FloatChars == {"0", "1", "/", " ", ",", ".", "x"}

FloatTexts == {Text(s) : s \in SeqsUpTo(FloatChars, MaxFloatLen)}

FloatArgs ==
    {[Kwargs("FloatField") EXCEPT !.default = d, !.raise_exception = r] :
        d \in Defaults, r \in BOOLEAN}

InitFloat == Start(FloatArgs)

FloatCall == \E v \in FloatTexts : Set(v)

NextFloat == Construct \/ FloatCall \/ Collect

SpecFloat == InitFloat /\ [][NextFloat]_vars

---------------------------------------------------------------------------
(* ArrayField fed every short text *)

ArrayChars == {"1", "x", ",", " "}

ArrayTexts == {Text(s) : s \in SeqsUpTo(ArrayChars, MaxArrayLen)}

ArrayArgs ==
    {[Kwargs("ArrayField") EXCEPT !.child_field = c, !.size = z, !.default = d,
                                  !.raise_exception = r] :
        c \in ChildFields, z \in Sizes, d \in Defaults, r \in BOOLEAN}

InitArray == Start(ArrayArgs)

ArrayCall == \E v \in ArrayTexts : Set(v)

NextArray == Construct \/ ArrayCall \/ Collect

SpecArray == InitArray /\ [][NextArray]_vars

---------------------------------------------------------------------------
(* Several callers inside set on one shared field, statement by statement: *)
(* each caller has its own `value`, loop position and steps entered        *)

SharedRawValues == {Text(<<"1">>), Text(<<"x">>), Text(<<"1", ",", "x">>)}

SharedArgs ==
    {[k EXCEPT !.default = d, !.skip_values = <<Text(<<"x">>)>>, !.method = m,
               !.handlers = hs, !.raise_exception = r] :
        k \in {Kwargs("IntegerField"), Kwargs("FloatField"),
               [Kwargs("ArrayField") EXCEPT !.child_field = IntegerChild]},
        d \in Defaults, m \in {NoMethod} \cup Callables,
        hs \in SeqsUpTo(Callables, MaxHandlers), r \in BOOLEAN}

InitShared == Start(SharedArgs)

\* caller c goes on inside set
Goes(c, next) ==
    /\ calls' = [calls EXCEPT ![c] = next]
    /\ UNCHANGED <<args, field, phase, op, raw, outcome>>

\* caller c leaves set with result r
Ends(c, r) == Goes(c, [calls[c] EXCEPT !.pc = "done", !.result = r])

\* def set(self, value): caller c enters set with the raw value v
Enter(c, v) ==
    /\ phase = "ready"
    /\ calls[c].pc = "idle"
    /\ Goes(c, [Idle EXCEPT !.pc = "skip", !.raw = v, !.value = v])

\* if value in self._skip_values: raise ValueError
SkipStep(c) ==
    /\ calls[c].pc = "skip"
    /\ IF InSkipValues(field, calls[c].value)
       THEN Ends(c, Except(field, "ValueError", calls[c].value, <<>>))
       ELSE Goes(c, [calls[c] EXCEPT !.pc = "handlers"])

\* the handler loop popping each handler off the field as it runs it
HandlerStepPopping(c) ==
    /\ calls[c].pc = "handlers"
    /\ field.handlers # <<>>
    /\ LET r == Call(Head(field.handlers), calls[c].value)
           entered == Append(calls[c].stages, "handler")
       IN calls' = [calls EXCEPT ![c] =
                IF r.ok THEN [@ EXCEPT !.value = r.value, !.stages = entered]
                ELSE [@ EXCEPT !.pc = "done",
                               !.result = Except(field, r.exc, calls[c].value, entered)]]
    /\ field' = [field EXCEPT !.handlers = Tail(@)]
    /\ UNCHANGED <<args, phase, op, raw, outcome>>

\* one round of the loop: value = handler.handle(value)
HandlerStep(c) ==
    /\ calls[c].pc = "handlers"
    /\ calls[c].idx < Len(field.handlers)
    /\ LET r == Call(field.handlers[calls[c].idx + 1], calls[c].value)
           entered == Append(calls[c].stages, "handler")
       IN IF r.ok
          THEN Goes(c, [calls[c] EXCEPT !.value = r.value, !.idx = @ + 1,
                                        !.stages = entered])
          ELSE Ends(c, Except(field, r.exc, calls[c].value, entered))

\* the loop is over; if self._method: value = self._method(value)
MethodStep(c) ==
    /\ calls[c].pc = "handlers"
    /\ calls[c].idx >= Len(field.handlers)
    /\ IF field.method = NoMethod
       THEN Goes(c, [calls[c] EXCEPT !.pc = "handle"])
       ELSE LET r == Call(field.method, calls[c].value)
                entered == Append(calls[c].stages, "method")
            IN IF r.ok
               THEN Goes(c, [calls[c] EXCEPT !.pc = "handle", !.value = r.value,
                                             !.stages = entered])
               ELSE Ends(c, Except(field, r.exc, calls[c].value, entered))

\* the inner try, and return value
HandleStep(c) ==
    /\ calls[c].pc = "handle"
    /\ LET h == InnerHandle(field, calls[c].value)
           entered == Append(calls[c].stages, "handle")
       IN IF h.ok
          THEN Ends(c, Return(h.value, entered))
          ELSE Ends(c, Except(field, h.exc, calls[c].value, entered))

\* the caller takes the result and is ready for its next call
Leave(c) ==
    /\ calls[c].pc = "done"
    /\ Goes(c, Idle)

EnterCall == \E c \in Callers, v \in SharedRawValues : Enter(c, v)

Step ==
    \E c \in Callers :
        SkipStep(c) \/ HandlerStep(c) \/ MethodStep(c) \/ HandleStep(c) \/ Leave(c)

NextShared == Construct \/ EnterCall \/ Step

SpecShared == InitShared /\ [][NextShared]_vars

---------------------------------------------------------------------------
(* What the current call of set went through, told from the field and the  *)
(* raw value alone                                                         *)

\* the error kinds the pipeline may turn into a fallback
Umbrella == {"KeyError", "ValueError", "IndexError", "OverflowError"}

IsSetCall == op = "set"

\* the raw value equals a member of the skip list
RawIsSkipped == \E i \in 1..Len(field.skip_values) : field.skip_values[i] = raw

AfterHandlers == RunHandlers(field.handlers, raw)

AfterMethod ==
    IF field.method # NoMethod
    THEN Call(field.method, AfterHandlers.value)
    ELSE Ok(AfterHandlers.value)

Handled == handle(field, AfterMethod.value)

HandlerRaised == IsSetCall /\ ~RawIsSkipped /\ ~AfterHandlers.ok

MethodRaised == IsSetCall /\ ~RawIsSkipped /\ AfterHandlers.ok /\ ~AfterMethod.ok

HandleEntered == IsSetCall /\ ~RawIsSkipped /\ AfterHandlers.ok /\ AfterMethod.ok

HandleRaised == HandleEntered /\ ~Handled.ok

\* the exception raised by the first step of the call that raises, "-" if none
RaisedExc ==
    IF RawIsSkipped THEN "ValueError"
    ELSE IF ~AfterHandlers.ok THEN AfterHandlers.exc
    ELSE IF ~AfterMethod.ok THEN AfterMethod.exc
    ELSE IF ~Handled.ok THEN Handled.exc
    ELSE "-"

Returned(v) == outcome.kind = "return" /\ outcome.value = v

Raised(e) == outcome.kind = "raise" /\ outcome.exc = e

\* set answers an exception that reached its except clause
FallbackOrRaise(e, v) ==
    IF IsInstance(e, Umbrella) /\ field.default = DEFAULT_FROM_INPUT
    THEN Returned(v)
    ELSE Raised(e)

---------------------------------------------------------------------------
(* Claims *)

\* C1 (as claimed): set runs the validators on the value handle produced:
\* if one of them rejects it set raises ValueValidationError, and if all
\* accept it set returns the coerced value.
C1_SetRunsValidators ==
    (HandleEntered /\ Handled.ok) =>
        IF Field_validate(field, Handled.value).ok
        THEN Returned(Handled.value)
        ELSE Raised("ValueValidationError")

\* C2 (as claimed): under the DEFAULT_FROM_INPUT default, an umbrella error
\* raised at any step of set makes set return the raw argument it was
\* called with.
C2_FallbackReturnsRawInput ==
    (IsSetCall /\ field.default = DEFAULT_FROM_INPUT /\ IsInstance(RaisedExc, Umbrella))
        => Returned(raw)

\* C3 (as claimed): a raw value in the skip list makes set fail, whatever
\* the configuration, and no step is applied.
C3_SkipAlwaysFails ==
    (IsSetCall /\ RawIsSkipped) => (outcome.kind = "raise" /\ outcome.stages = <<>>)

\* C3 (amended): a raw value in the skip list makes set enter no handler,
\* method or handle step; set raises the skip ValueError unless the default
\* is DEFAULT_FROM_INPUT, and then it returns the raw value unchanged.
C3_SkipFailsOrFallsBack ==
    (IsSetCall /\ RawIsSkipped) =>
        /\ outcome.stages = <<>>
        /\ IF field.default = DEFAULT_FROM_INPUT
           THEN Returned(raw)
           ELSE Raised("ValueError")

C3_Witness ==
    /\ IsSetCall /\ RawIsSkipped
    /\ field.default = DEFAULT_FROM_INPUT
    /\ ~field.raise_exception
    /\ field.handlers # <<>>
    /\ Returned(raw)

\* the number of pieces of the text the array field is called with
SplitCount == Len(ArrayField_split_string(field, raw))

\* C4 (as claimed): with an integer size limit L, handle raises
\* ArraySizeLimitError exactly when the number of pieces is >= L; with the
\* ARRAY_NO_SIZE_LIMITS marker it never does.
C4_FailsExactlyFromLimitUp ==
    (IsSetCall /\ field.variant = "ArrayField") =>
        IF field.size = ARRAY_NO_SIZE_LIMITS
        THEN ArrayField_handle(field, raw).exc # "ArraySizeLimitError"
        ELSE (ArrayField_handle(field, raw).exc = "ArraySizeLimitError")
                <=> (SplitCount >= field.size.limit)

\* C5 (as claimed): an error outside the umbrella set raised by a handler,
\* the method or handle always leaves set, whatever default and
\* raise_exception are.
C5_OtherErrorsAlwaysPropagate ==
    (IsSetCall /\ RaisedExc # "-" /\ ~IsInstance(RaisedExc, Umbrella))
        => Raised(RaisedExc)

\* C5 (amended): an error outside the umbrella set raised by a handler or
\* by the method always leaves set, whatever default and raise_exception
\* are; raised by handle it leaves set when raise_exception is true, and
\* when raise_exception is false set returns the value it held before
\* handle.
C5_OtherErrorsPropagateUnlessSuppressed ==
    (IsSetCall /\ RaisedExc # "-" /\ ~IsInstance(RaisedExc, Umbrella)) =>
        IF HandleRaised /\ ~field.raise_exception
        THEN Returned(AfterMethod.value)
        ELSE Raised(RaisedExc)

C5_Witness ==
    /\ HandlerRaised
    /\ AfterHandlers.exc = "TypeError"
    /\ AfterHandlers.n = 2
    /\ field.default = DEFAULT_FROM_INPUT
    /\ ~field.raise_exception
    /\ Raised("TypeError")

\* C6: when handle raises, raise_exception = TRUE lets the same error reach
\* the except clause of set (fallback or raise), and raise_exception = FALSE
\* makes set return the value as it was before handle, after the handlers
\* and the method; an error of a handler or of the method is answered the
\* same way whatever raise_exception is.
C6_RaiseExceptionGovernsHandleOnly ==
    /\ (HandleRaised /\ field.raise_exception)
            => FallbackOrRaise(Handled.exc, AfterMethod.value)
    /\ (HandleRaised /\ ~field.raise_exception) => Returned(AfterMethod.value)
    /\ HandlerRaised => FallbackOrRaise(AfterHandlers.exc, AfterHandlers.value)
    /\ MethodRaised => FallbackOrRaise(AfterMethod.exc, AfterHandlers.value)

C6_Witness ==
    /\ HandleRaised
    /\ ~field.raise_exception
    /\ field.variant = "ArrayField"
    /\ AfterMethod.value # raw
    /\ Returned(AfterMethod.value)

\* C7: a constructor call with both a method and a non-empty handler list
\* fails with AttributeError and yields no field, for every variant; so no
\* field that set is called on has both.
C7_MethodExcludesHandlers ==
    /\ (phase # "new" /\ args.method # NoMethod /\ args.handlers # <<>>)
            => (phase = "failed" /\ field = NoField /\ op = "none")
    /\ phase = "ready" => ~(field.method # NoMethod /\ field.handlers # <<>>)

C7_Witness ==
    /\ phase = "failed"
    /\ args.method # NoMethod
    /\ args.handlers # <<>>
    /\ args.variant = "ArrayField"

\* the number of i with s[i] = c
Occurrences(s, c) == Cardinality({i \in 1..Len(s) : s[i] = c})

\* the number of maximal runs of characters other than whitespace
Words(s) == Cardinality({i \in 1..Len(s) : s[i] # " " /\ (i = 1 \/ s[i - 1] = " ")})

RECURSIVE Join(_, _)
\* c.join(parts)
Join(parts, c) ==
    IF Len(parts) = 1 THEN parts[1]
    ELSE parts[1] \o <<c>> \o Join(Tail(parts), c)

\* C8: when every piece of the text passes the child field's set, the array
\* field yields the sequence of the child results, one per piece and in the
\* order of the pieces, the pieces being the text cut at every occurrence
\* of the detected separator (at whitespace when there is none); when the
\* child's set raises for a piece, it yields no sequence at all.
C8_ArrayIsChildResultsInOrder ==
    (IsSetCall /\ field.variant = "ArrayField") =>
        LET parts == ArrayField_split_string(field, raw)
            separator == get_separator(field.separators, raw)
            child(i) == Field_set(field.child_field, Text(parts[i]))
            sized == field.size = ARRAY_NO_SIZE_LIMITS \/ Len(parts) >= field.size.limit
            failing == {i \in 1..Len(parts) : child(i).kind = "raise"}
        IN /\ IF separator = NoSeparator
              THEN Len(parts) = Words(raw.str)
              ELSE /\ Len(parts) = Occurrences(raw.str, separator) + 1
                   /\ Join(parts, separator) = raw.str
           /\ (sized /\ failing = {}) =>
                /\ outcome.kind = "return"
                /\ DOMAIN outcome.value = {"list"}
                /\ Len(outcome.value.list) = Len(parts)
                /\ \A i \in 1..Len(parts) : outcome.value.list[i] = child(i).value
           /\ (sized /\ failing # {}) =>
                /\ ~ArrayField_handle(field, raw).ok
                /\ outcome.kind = "return" => outcome.value = raw

C8_Witness ==
    /\ IsSetCall
    /\ field.child_field = NestedChild
    /\ outcome.kind = "return"
    /\ DOMAIN outcome.value = {"list"}
    /\ Len(outcome.value.list) = 2
    /\ outcome.value.list[1] # outcome.value.list[2]

\* C9: no call of set changes the field or its child field: the field is
\* always the one the constructor made, and after any sequence and any
\* interleaving of calls of set by the callers that share the field, the
\* outcome of set(v) is the one the constructed configuration gives for v.
C9_SetLeavesFieldUnchanged ==
    phase = "ready" =>
        /\ field = Field_init(args).value
        /\ \A c \in Callers :
              calls[c].pc = "done" =>
                  /\ calls[c].result.kind # "none"
                  /\ calls[c].result = Field_set(Field_init(args).value, calls[c].raw)

C9_Witness ==
    \E c, d \in Callers :
        /\ phase = "ready"
        /\ c # d
        /\ field.variant = "ArrayField"
        /\ calls[c].pc = "done"
        /\ calls[c].result.kind = "return"
        /\ calls[c].result.value # calls[c].raw
        /\ calls[d].pc = "handlers"
        /\ calls[d].idx = 1
        /\ calls[d].raw # calls[c].raw

\* C10 (as claimed): every text FloatField.handle fails on makes it raise a
\* ValueError, so that under the DEFAULT_FROM_INPUT default set falls back
\* to the raw text.
C10_FloatFailureIsValueError ==
    (IsSetCall /\ field.variant = "FloatField" /\ ~FloatField_handle(field, raw).ok) =>
        /\ FloatField_handle(field, raw).exc = "ValueError"
        /\ field.default = DEFAULT_FROM_INPUT => Returned(raw)

====
